---- MODULE Spec2Model ----
(***************************************************************************)
(* A model of chat.go: the socket.io chat server whose rooms are served by *)
(* one Chatroom goroutine each.                                            *)
(*                                                                         *)
(* Goroutines of the model:                                                *)
(*   - one per connection (the socket.io read loop, which runs the         *)
(*     "register", "login", "message" and "disconnection" callbacks one    *)
(*     at a time),                                                         *)
(*   - one Chatroom worker per `go Chatroom(...)` (line 164),              *)
(*   - one consumer per successful login (the `go func()` of line 224).    *)
(* Unbuffered channels are rendezvous: a send and its receive are one      *)
(* step, taken when the sender is parked at the send and the receiver is   *)
(* at the matching receive.  A goroutine's step runs from one access of    *)
(* shared state to the next point where it can block or where another      *)
(* goroutine can interfere: the operands of a channel send (the read of    *)
(* chatRooms[key] and NewEvent) are evaluated in the step that brings the  *)
(* goroutine to the send, which loses no interleaving because the step     *)
(* before it never touches chatRooms or the clock.                         *)
(*                                                                         *)
(* Variables whose comment says "history variable" record what happened    *)
(* and are never read by an action of the program.                         *)
(***************************************************************************)
EXTENDS Integers, Sequences, FiniteSets, TLC

\* ------------------------------------------------------------------------
\* Program constants
\* ------------------------------------------------------------------------
ArchiveCap == 20
QueueCap == 10

\* ------------------------------------------------------------------------
\* Bounds of the model
\* ------------------------------------------------------------------------
\* Channels values / Chatroom workers that may be created (register calls).
MaxChannels == 2
\* Subscriber handles that may be created (Subscribe calls, logins).
MaxHandles == 2
\* Subscribe calls in the long-run specifications.
MaxHandlesLong == 1
\* Publish calls (Join, Say, Leave) in the short specifications.
MaxPublish == 2
\* Publish calls in the long-run specifications (more than ArchiveCap).
MaxPublishLong == 22
\* "disconnection" callbacks in the server specification.
MaxDisconnect == 1
\* Largest value of the wall clock (seconds).
MaxTime == 1

Rooms == {"R1", "R2"}
Users == {"alice", "bob"}
Pws == {"pw1", "pw2"}
Texts == {"hi"}
Conns == {1, 2}

ChanIds == 1..MaxChannels
Workers == 1..MaxChannels
\* Handle identifiers; a handle is the `chan Event` made at line 101.
Handles == 1..MaxHandles

NoPw == "<absent>"
NoRoom == "<none>"
NoUser == "<none>"

\* Event (lines 26-31)
Event(evtType, user, ts, text) ==
    [EvtType |-> evtType, User |-> user, Timestamp |-> ts, Text |-> text]

NoEvent == Event("", "", 0, "")

VARIABLES
    chatRooms,    \* chatRooms (line 14): room id -> Channels id, 0 = no entry
    userList,     \* Channels.userList (line 22): Channels id -> user -> secret
    nChan,        \* number of Channels values made so far (line 160)
    nWorker,      \* number of Chatroom goroutines started (line 164)
    wk,           \* Chatroom goroutines: ch, pc, archive, subscribers, event, idx
    queue,        \* handle -> buffered contents of the `chan Event` (line 101)
    snapshot,     \* handle -> Subscription.Archive built with it (line 105)
    nHandle,      \* number of handles made so far
    conn,         \* connection goroutines: pc and locals
    cons,         \* consumer goroutines (line 224), one per handle of a login
    clock,        \* time.Now().Unix()
    crashed,      \* the runtime ended the process on a concurrent map access
    errors,       \* connection -> the "error" messages emitted to it, in order
    nLogin,       \* bound counter: login callbacks begun
    nReg,         \* bound counter: register callbacks begun
    history,      \* history variable: worker -> events it accepted, in order
    enq,          \* history variable: handle -> events enqueued on it, in order
    owner,        \* history variable: handle -> worker that made it
    subAt,        \* history variable: handle -> Len(history) when it was registered
    removed,      \* history variable: handle -> its worker has removed it
    registered,   \* history variable: connection -> a "register" callback of it has returned
    said,         \* history variable: the "message" callbacks that have returned, in order
    loginAt       \* history variable: connection -> Len(said) when its running login began

regVars == <<chatRooms, userList, nChan, nWorker>>
envVars == <<clock, crashed, errors>>
boundVars == <<nLogin, nReg>>
histVars == <<history, enq, owner, subAt, removed>>
cbVars == <<registered, said, loginAt>>
vars == <<regVars, wk, queue, snapshot, nHandle, conn, cons, envVars,
          boundVars, histVars, cbVars>>

\* ------------------------------------------------------------------------
\* Values
\* ------------------------------------------------------------------------
\* A Chatroom goroutine that has not been started.
NoWorker ==
    [ch |-> 0, pc |-> "none", archive |-> <<>>, subscribers |-> <<>>,
     event |-> NoEvent, idx |-> 0]

\* Chatroom's locals on entry (lines 85-86), waiting in the select of line 91.
NewWorker(ch) ==
    [ch |-> ch, pc |-> "select", archive |-> <<>>, subscribers |-> <<>>,
     event |-> NoEvent, idx |-> 0]

\* A connection goroutine between two callbacks.
IdleConn ==
    [pc |-> "ready", k |-> "", room |-> NoRoom, user |-> NoUser, pw |-> NoPw,
     msg |-> "", v |-> 0, tgt |-> 0, ev |-> NoEvent, s |-> 0, cb |-> 0]

\* The consumer goroutine of a login that has not happened.
NoConsumer ==
    [pc |-> "none", so |-> 0, room |-> NoRoom, user |-> NoUser, tgt |-> 0,
     ev |-> NoEvent]

\* NewEvent (lines 41-43): stamps the wall clock.
NewEvent(evtType, user, msg) == Event(evtType, user, clock, msg)

\* The callback of connection c returns: its locals die, the callbacks
\* installed on the socket stay.
Return(c) == [IdleConn EXCEPT !.cb = conn[c].cb]

\* Line 48, line 54: the goroutine r (its locals) parks at the send on
\* chatRooms[r.room].subscribe / .unsubscribe.  A missing key gives the zero
\* Channels, whose channels are nil (0): a send on them never completes.
AtSend(r, pc) == [r EXCEPT !.pc = pc, !.tgt = chatRooms[r.room]]

\* Lines 70, 75, 80: the goroutine r parks at the send of a new event on
\* chatRooms[r.room].publish.
AtPublish(r, pc, evtType, msg) ==
    [r EXCEPT !.pc = pc, !.tgt = chatRooms[r.room],
              !.ev = NewEvent(evtType, r.user, msg)]

\* ------------------------------------------------------------------------
\* Chatroom (lines 84-135)
\* ------------------------------------------------------------------------
\* A faulty CopyArchive: walks the list from the back, newest event first.
CopyArchiveNewestFirst(archive) ==
    [i \in 1..Len(archive) |-> archive[Len(archive) + 1 - i]]

\* Lines 96-99: the events of the archive, front to back.
CopyArchive(archive) == [i \in 1..Len(archive) |-> archive[i]]

\* A faulty PushArchive: tests `>` for `>=`, so evicts one event too late.
PushArchiveOffByOne(archive, event) ==
    IF Len(archive) > ArchiveCap
    THEN Append(Tail(archive), event)
    ELSE Append(archive, event)

\* A faulty PushArchive: evicts the back (the newest) for the front.
PushArchiveDropNewest(archive, event) ==
    IF Len(archive) >= ArchiveCap
    THEN Append(SubSeq(archive, 1, Len(archive) - 1), event)
    ELSE Append(archive, event)

\* Lines 118-122: drop the front when 20 are held, then push back.
PushArchive(archive, event) ==
    IF Len(archive) >= ArchiveCap
    THEN Append(Tail(archive), event)
    ELSE Append(archive, event)

\* A faulty RemoveSubscriber: finds the element and forgets to remove it.
RemoveSubscriberNone(subscribers, c) == subscribers

\* A faulty RemoveSubscriber: removes the back element when c is not found.
RemoveSubscriberOrLast(subscribers, c) ==
    LET hits == {i \in 1..Len(subscribers) : subscribers[i] = c}
    IN IF hits = {} THEN SubSeq(subscribers, 1, Len(subscribers) - 1)
       ELSE LET i == CHOOSE j \in hits : \A m \in hits : j <= m
            IN SubSeq(subscribers, 1, i - 1) \o
               SubSeq(subscribers, i + 1, Len(subscribers))

\* A faulty RemoveSubscriber: removes the front element when c is found.
RemoveSubscriberFront(subscribers, c) ==
    IF \E i \in 1..Len(subscribers) : subscribers[i] = c
    THEN Tail(subscribers)
    ELSE subscribers

\* Lines 125-132: remove the first element equal to c, if any.
RemoveSubscriber(subscribers, c) ==
    LET hits == {i \in 1..Len(subscribers) : subscribers[i] = c}
    IN IF hits = {} THEN subscribers
       ELSE LET i == CHOOSE j \in hits : \A m \in hits : j <= m
            IN SubSeq(subscribers, 1, i - 1) \o
               SubSeq(subscribers, i + 1, Len(subscribers))

\* The worker w is parked in the select of line 91.
Selecting(w) == wk[w].pc = "select"

\* A faulty Register: pushes the new handle twice.
RegisterTwice(subscribers, h) == Append(Append(subscribers, h), h)

\* Lines 101-102: the new handle is pushed at the back of the subscribers.
Register(subscribers, h) == Append(subscribers, h)

\* What follows Subscribe in its caller: Join (line 207) in a login, else
\* the caller has its Subscription and returns.
AfterSubscribe(c, h) ==
    IF conn[c].k = "login"
    THEN AtPublish([conn[c] EXCEPT !.s = h], "pub_send", "join", "")
    ELSE Return(c)

\* Lines 92-105 with lines 48-49: the worker receives the reply slot of
\* connection c, copies the archive, makes a handle, registers it and sends
\* the Subscription on the reply slot, where the caller is waiting (the
\* caller does nothing between its send of line 48 and its receive of line
\* 49, so the two rendezvous are one step).
ActorSubscribe(w, c) ==
    /\ ~crashed
    /\ Selecting(w)
    /\ conn[c].pc = "sub_send"
    /\ conn[c].tgt = wk[w].ch
    /\ LET h == nHandle + 1
       IN /\ nHandle' = h
          /\ snapshot' = [snapshot EXCEPT ![h] = CopyArchive(wk[w].archive)]
          /\ queue' = [queue EXCEPT ![h] = <<>>]
          /\ wk' = [wk EXCEPT ![w].subscribers = Register(@, h)]
          /\ owner' = [owner EXCEPT ![h] = w]
          /\ subAt' = [subAt EXCEPT ![h] = Len(history[w])]
          /\ conn' = [conn EXCEPT ![c] = AfterSubscribe(c, h)]
    /\ UNCHANGED <<cbVars, regVars, cons, envVars, boundVars, history, enq, removed>>

\* A faulty Accept: the delivery loop starts at the second subscriber.
AcceptSkipFirst(w, event) ==
    /\ wk' = [wk EXCEPT ![w].pc = "deliver", ![w].event = event, ![w].idx = 2]
    /\ history' = [history EXCEPT ![w] = Append(@, event)]

\* A faulty Accept: the event is stored in the archive as it is received.
AcceptArchiveFirst(w, event) ==
    /\ wk' = [wk EXCEPT ![w].pc = "deliver", ![w].event = event, ![w].idx = 1,
                        ![w].archive = PushArchive(@, event)]
    /\ history' = [history EXCEPT ![w] = Append(@, event)]

\* Lines 108-109: the worker receives an event from its publish channel.
Accept(w, event) ==
    /\ wk' = [wk EXCEPT ![w].pc = "deliver", ![w].event = event, ![w].idx = 1]
    /\ history' = [history EXCEPT ![w] = Append(@, event)]

\* A faulty ActorDeliver: the send never waits for room in the buffer.
ActorDeliverNoBlock(w) ==
    /\ ~crashed
    /\ wk[w].pc = "deliver"
    /\ wk[w].idx <= Len(wk[w].subscribers)
    /\ LET h == wk[w].subscribers[wk[w].idx]
       IN /\ queue' = [queue EXCEPT ![h] =
                         IF Len(@) < QueueCap THEN Append(@, wk[w].event) ELSE @]
          /\ enq' = [enq EXCEPT ![h] =
                         IF Len(queue[h]) < QueueCap THEN Append(@, wk[w].event) ELSE @]
    /\ wk' = [wk EXCEPT ![w].idx = @ + 1]
    /\ UNCHANGED <<cbVars, regVars, snapshot, nHandle, conn, cons, envVars,
                   boundVars, history, owner, subAt, removed>>

\* A faulty ActorDeliver: the handle hands out the newest event first.
ActorDeliverLifo(w) ==
    /\ ~crashed
    /\ wk[w].pc = "deliver"
    /\ wk[w].idx <= Len(wk[w].subscribers)
    /\ LET h == wk[w].subscribers[wk[w].idx]
       IN /\ Len(queue[h]) < QueueCap
          /\ queue' = [queue EXCEPT ![h] = <<wk[w].event>> \o @]
          /\ enq' = [enq EXCEPT ![h] = Append(@, wk[w].event)]
    /\ wk' = [wk EXCEPT ![w].idx = @ + 1]
    /\ UNCHANGED <<cbVars, regVars, snapshot, nHandle, conn, cons, envVars,
                   boundVars, history, owner, subAt, removed>>

\* Lines 110-116, one iteration: send the event to the next subscriber; the
\* send blocks while that subscriber's buffer holds 10 events.
ActorDeliver(w) ==
    /\ ~crashed
    /\ wk[w].pc = "deliver"
    /\ wk[w].idx <= Len(wk[w].subscribers)
    /\ LET h == wk[w].subscribers[wk[w].idx]
       IN /\ Len(queue[h]) < QueueCap
          /\ queue' = [queue EXCEPT ![h] = Append(@, wk[w].event)]
          /\ enq' = [enq EXCEPT ![h] = Append(@, wk[w].event)]
    /\ wk' = [wk EXCEPT ![w].idx = @ + 1]
    /\ UNCHANGED <<cbVars, regVars, snapshot, nHandle, conn, cons, envVars, boundVars,
                   history, owner, subAt, removed>>

\* Lines 118-122: after the last subscriber, store the event in the archive
\* and go back to the select.
ActorArchive(w) ==
    /\ ~crashed
    /\ wk[w].pc = "deliver"
    /\ wk[w].idx > Len(wk[w].subscribers)
    /\ wk' = [wk EXCEPT ![w].archive = PushArchive(@, wk[w].event),
                        ![w].pc = "select",
                        ![w].event = NoEvent,
                        ![w].idx = 0]
    /\ UNCHANGED <<cbVars, regVars, queue, snapshot, nHandle, conn, cons, envVars,
                   boundVars, histVars>>

\* ------------------------------------------------------------------------
\* Join, Say, Leave (lines 68-81) called by a connection goroutine
\* ------------------------------------------------------------------------
\* Lines 209-234: after Join the login callback emits the snapshot, installs
\* the "message" and "disconnection" callbacks of this login (replacing those
\* of an earlier login of the socket) and starts the consumer goroutine.
LoginDone(c) == [IdleConn EXCEPT !.cb = conn[c].s]

StartConsumer(c) ==
    [NoConsumer EXCEPT !.pc = "select", !.so = c, !.room = conn[c].room,
                       !.user = conn[c].user]

\* What follows the publish of connection c once the worker has taken it:
\* the rest of the login callback, Cancel after Leave (line 221), or return.
AfterPublish(c) ==
    CASE conn[c].k = "login" -> LoginDone(c)
      [] conn[c].k = "disc" ->
            AtSend([conn[c] EXCEPT !.ev = NoEvent], "unsub_send")
      [] OTHER -> Return(c)

\* Line 108 with the send of line 70 / 75 / 80 by connection c.
ActorPublish(w, c) ==
    /\ ~crashed
    /\ Selecting(w)
    /\ conn[c].pc = "pub_send"
    /\ conn[c].tgt = wk[w].ch
    /\ Accept(w, conn[c].ev)
    /\ conn' = [conn EXCEPT ![c] = AfterPublish(c)]
    /\ cons' = IF conn[c].k = "login"
               THEN [cons EXCEPT ![conn[c].s] = StartConsumer(c)]
               ELSE cons
    /\ loginAt' = IF conn[c].k = "login"
                  THEN [loginAt EXCEPT ![c] = 0]
                  ELSE loginAt
    /\ UNCHANGED <<regVars, queue, snapshot, nHandle, envVars, boundVars, enq,
                   owner, subAt, removed, registered, said>>

\* ------------------------------------------------------------------------
\* Subscription.Cancel (lines 53-66)
\* ------------------------------------------------------------------------
\* Lines 124-132 with the send of line 54: the worker takes the handle and
\* removes it from its subscribers when it is there.
ActorUnsubscribe(w, c) ==
    /\ ~crashed
    /\ Selecting(w)
    /\ conn[c].pc = "unsub_send"
    /\ conn[c].tgt = wk[w].ch
    /\ wk' = [wk EXCEPT ![w].subscribers = RemoveSubscriber(@, conn[c].s)]
    /\ removed' = [removed EXCEPT ![conn[c].s] =
                      @ \/ \E i \in 1..Len(wk[w].subscribers) :
                              wk[w].subscribers[i] = conn[c].s]
    /\ conn' = [conn EXCEPT ![c].pc = "drain", ![c].tgt = 0]
    /\ UNCHANGED <<cbVars, regVars, queue, snapshot, nHandle, cons, envVars, boundVars,
                   history, enq, owner, subAt>>

\* Lines 56-61: the non-blocking receive finds a buffered event and drops it.
CancelDrain(c) ==
    /\ ~crashed
    /\ conn[c].pc = "drain"
    /\ queue[conn[c].s] # <<>>
    /\ queue' = [queue EXCEPT ![conn[c].s] = Tail(@)]
    /\ UNCHANGED <<cbVars, regVars, wk, snapshot, nHandle, conn, cons, envVars,
                   boundVars, histVars>>

\* Lines 62-63: the buffer is empty, Cancel returns; after a "disconnection"
\* callback the connection goroutine ends.
CancelReturn(c) ==
    /\ ~crashed
    /\ conn[c].pc = "drain"
    /\ queue[conn[c].s] = <<>>
    /\ conn' = [conn EXCEPT ![c] = IF conn[c].k = "disc"
                                   THEN [IdleConn EXCEPT !.pc = "closed"]
                                   ELSE Return(c)]
    /\ UNCHANGED <<cbVars, regVars, wk, queue, snapshot, nHandle, cons, envVars,
                   boundVars, histVars>>

\* ------------------------------------------------------------------------
\* The consumer goroutine of a login (lines 224-234)
\* ------------------------------------------------------------------------
\* Lines 227-228: an event is taken from s.New and emitted to the socket.
ConsumerEvent(h) ==
    /\ ~crashed
    /\ cons[h].pc = "select"
    /\ queue[h] # <<>>
    /\ queue' = [queue EXCEPT ![h] = Tail(@)]
    /\ UNCHANGED <<cbVars, regVars, wk, snapshot, nHandle, conn, cons, envVars,
                   boundVars, histVars>>

\* Lines 230-231 with the send of line 215: the "message" callback of
\* connection c hands the text to the consumer of the login whose callbacks
\* are installed, and returns; the consumer calls Say and parks at the send
\* of line 75.
ConsumerMessage(h, c) ==
    /\ ~crashed
    /\ cons[h].pc = "select"
    /\ conn[c].pc = "msg_send"
    /\ conn[c].cb = h
    /\ cons' = [cons EXCEPT ![h] = AtPublish(@, "say_send", "message",
                                             conn[c].msg)]
    /\ conn' = [conn EXCEPT ![c] = Return(c)]
    /\ said' = Append(said, [so |-> c, room |-> cons[h].room,
                             user |-> cons[h].user, text |-> conn[c].msg])
    /\ UNCHANGED <<regVars, wk, queue, snapshot, nHandle, envVars, boundVars,
                   histVars, registered, loginAt>>

\* Line 108 with the send of line 75 by the consumer of handle h.
ActorPublishSay(w, h) ==
    /\ ~crashed
    /\ Selecting(w)
    /\ cons[h].pc = "say_send"
    /\ cons[h].tgt = wk[w].ch
    /\ Accept(w, cons[h].ev)
    /\ cons' = [cons EXCEPT ![h].pc = "select", ![h].tgt = 0,
                            ![h].ev = NoEvent]
    /\ UNCHANGED <<cbVars, regVars, queue, snapshot, nHandle, conn, envVars, boundVars,
                   enq, owner, subAt, removed>>

\* ------------------------------------------------------------------------
\* Counts that bound the runs
\* ------------------------------------------------------------------------
\* Sum of the lengths of the sequences f[x], x in S.
RECURSIVE SumLen(_, _)
SumLen(f, S) ==
    IF S = {} THEN 0
    ELSE LET x == CHOOSE y \in S : TRUE
         IN Len(f[x]) + SumLen(f, S \ {x})

\* Subscribe calls begun: handles made and callers parked at line 48.
Subscribes ==
    nHandle + Cardinality({c \in Conns : conn[c].pc = "sub_send"})

\* Publishes begun: events accepted, senders parked at a publish channel and
\* "message" callbacks parked at line 215.
Publishes ==
    SumLen(history, Workers)
    + Cardinality({c \in Conns : conn[c].pc \in {"pub_send", "msg_send"}})
    + Cardinality({h \in Handles : cons[h].pc = "say_send"})

\* "disconnection" callbacks begun.
Disconnections ==
    Cardinality({c \in Conns : conn[c].k = "disc" \/ conn[c].pc = "closed"})

\* ------------------------------------------------------------------------
\* The "register" callback (lines 147-174)
\* ------------------------------------------------------------------------
\* Lines 147-157: the callback starts with the three fields of the payload
\* and looks the room up: v, exists := chatRooms[roomID].
OnRegister(c, roomID, userID, userPw) ==
    /\ ~crashed
    /\ conn[c].pc = "ready"
    /\ nReg < MaxChannels
    /\ nReg' = nReg + 1
    /\ conn' = [conn EXCEPT ![c].pc = IF chatRooms[roomID] = 0
                                      THEN "reg160" ELSE "reg172",
                            ![c].k = "register",
                            ![c].room = roomID, ![c].user = userID,
                            ![c].pw = userPw, ![c].v = chatRooms[roomID]]
    /\ UNCHANGED <<cbVars, regVars, wk, queue, snapshot, nHandle, cons, envVars, nLogin, histVars>>

\* Lines 160-162: a new Channels value, with an empty userList, is stored
\* under roomID (over whatever is there by now).
RegisterInsert(c) ==
    /\ ~crashed
    /\ conn[c].pc = "reg160"
    /\ nChan' = nChan + 1
    /\ chatRooms' = [chatRooms EXCEPT ![conn[c].room] = nChan + 1]
    /\ conn' = [conn EXCEPT ![c].pc = "reg164"]
    /\ UNCHANGED <<cbVars, userList, nWorker, wk, queue, snapshot, nHandle, cons,
                   envVars, boundVars, histVars>>

\* Line 164: go Chatroom(chatRooms[roomID]), on the entry read now.
RegisterSpawn(c) ==
    /\ ~crashed
    /\ conn[c].pc = "reg164"
    /\ nWorker' = nWorker + 1
    /\ wk' = [wk EXCEPT ![nWorker + 1] = NewWorker(chatRooms[conn[c].room])]
    /\ conn' = [conn EXCEPT ![c].pc = "reg168"]
    /\ UNCHANGED <<cbVars, chatRooms, userList, nChan, queue, snapshot, nHandle, cons,
                   envVars, boundVars, histVars>>

\* Line 168: chatRooms[roomID].userList[userID] = userPw, on the entry read now.
RegisterAddNew(c) ==
    /\ ~crashed
    /\ conn[c].pc = "reg168"
    /\ userList' = [userList EXCEPT
                      ![chatRooms[conn[c].room]][conn[c].user] = conn[c].pw]
    /\ conn' = [conn EXCEPT ![c] = Return(c)]
    /\ registered' = [registered EXCEPT ![c] = TRUE]
    /\ UNCHANGED <<chatRooms, nChan, nWorker, wk, queue, snapshot, nHandle,
                   cons, envVars, boundVars, histVars, said, loginAt>>

\* A faulty RegisterAddOld: stores the secret under every user of the room.
RegisterAddOldAllUsers(c) ==
    /\ ~crashed
    /\ conn[c].pc = "reg172"
    /\ userList' = [userList EXCEPT ![conn[c].v] = [u \in Users |-> conn[c].pw]]
    /\ conn' = [conn EXCEPT ![c] = Return(c)]
    /\ registered' = [registered EXCEPT ![c] = TRUE]
    /\ UNCHANGED <<chatRooms, nChan, nWorker, wk, queue, snapshot, nHandle,
                   cons, envVars, boundVars, histVars, said, loginAt>>

\* Line 172: v.userList[userID] = userPw, on the entry read at line 156.
RegisterAddOld(c) ==
    /\ ~crashed
    /\ conn[c].pc = "reg172"
    /\ userList' = [userList EXCEPT ![conn[c].v][conn[c].user] = conn[c].pw]
    /\ conn' = [conn EXCEPT ![c] = Return(c)]
    /\ registered' = [registered EXCEPT ![c] = TRUE]
    /\ UNCHANGED <<chatRooms, nChan, nWorker, wk, queue, snapshot, nHandle,
                   cons, envVars, boundVars, histVars, said, loginAt>>

\* ------------------------------------------------------------------------
\* The "login" callback (lines 176-240)
\* ------------------------------------------------------------------------
\* The texts of lines 188, 194 and 199.
NoRoomMsg(roomID) == "Chat room with room id " \o roomID \o " doesn't exist"
NoUserMsg == "You're not found in the user list. Please register first"
BadPwMsg == "Password is incorrect!"

\* A faulty EmitError: the error is broadcast to every socket.
EmitErrorAll(c, msg) ==
    /\ errors' = [d \in Conns |-> Append(errors[d], msg)]
    /\ conn' = [conn EXCEPT ![c] = Return(c)]
    /\ loginAt' = [loginAt EXCEPT ![c] = 0]

\* so.Emit("error", msg) on the socket of connection c, then the callback
\* returns (lines 189, 195, 200).
EmitError(c, msg) ==
    /\ errors' = [errors EXCEPT ![c] = Append(@, msg)]
    /\ conn' = [conn EXCEPT ![c] = Return(c)]
    /\ loginAt' = [loginAt EXCEPT ![c] = 0]

\* Lines 176-189: the callback starts and looks the room up:
\* v, exists := chatRooms[roomID]; no room, an error.
OnLogin(c, roomID, userID, userPw) ==
    /\ ~crashed
    /\ conn[c].pc = "ready"
    /\ nLogin < MaxHandles
    /\ nLogin' = nLogin + 1
    /\ IF chatRooms[roomID] = 0
       THEN EmitError(c, NoRoomMsg(roomID))
       ELSE /\ conn' = [conn EXCEPT ![c].pc = "login192", ![c].k = "login",
                                    ![c].room = roomID, ![c].user = userID,
                                    ![c].pw = userPw,
                                    ![c].v = chatRooms[roomID]]
            /\ loginAt' = [loginAt EXCEPT ![c] = Len(said)]
            /\ UNCHANGED errors
    /\ UNCHANGED <<regVars, wk, queue, snapshot, nHandle, cons, clock, crashed,
                   nReg, histVars, registered, said>>

\* Lines 192-206: pw, userExists := v.userList[userID]; an unknown user or
\* another secret is an error, otherwise the callback calls Subscribe.
LoginCheck(c) ==
    /\ ~crashed
    /\ conn[c].pc = "login192"
    /\ LET pw == userList[conn[c].v][conn[c].user]
       IN CASE pw = NoPw -> EmitError(c, NoUserMsg)
            [] pw # NoPw /\ pw # conn[c].pw ->
                  EmitError(c, BadPwMsg)
            [] OTHER ->
                  /\ conn' = [conn EXCEPT ![c] =
                                AtSend([@ EXCEPT !.v = 0, !.pw = NoPw],
                                       "sub_send")]
                  /\ UNCHANGED <<errors, loginAt>>
    /\ UNCHANGED <<regVars, wk, queue, snapshot, nHandle, cons, clock, crashed,
                   boundVars, histVars, registered, said>>

\* ------------------------------------------------------------------------
\* The "message" and "disconnection" callbacks (lines 214-222)
\* ------------------------------------------------------------------------
\* Line 215: the callback of the last successful login of the socket parks
\* at the send on its newMessages; a socket that never logged in has no
\* "message" callback.
OnMessage(c, msg) ==
    /\ ~crashed
    /\ conn[c].pc = "ready"
    /\ conn[c].cb # 0
    /\ Publishes < MaxPublish
    /\ conn' = [conn EXCEPT ![c].pc = "msg_send", ![c].k = "message",
                            ![c].msg = msg]
    /\ UNCHANGED <<cbVars, regVars, wk, queue, snapshot, nHandle, cons, envVars, boundVars, histVars>>

\* Lines 219-221: Leave(userID, roomID), then s.Cancel(roomID), with the
\* userID, roomID and s of the last successful login of the socket; a socket
\* that never logged in has no "disconnection" callback.
OnDisconnection(c) ==
    /\ ~crashed
    /\ conn[c].pc = "ready"
    /\ conn[c].cb # 0
    /\ Disconnections < MaxDisconnect
    /\ conn' = [conn EXCEPT ![c] =
                  AtPublish([IdleConn EXCEPT !.k = "disc",
                                             !.room = cons[conn[c].cb].room,
                                             !.user = cons[conn[c].cb].user,
                                             !.s = conn[c].cb,
                                             !.cb = conn[c].cb],
                            "pub_send", "leave", "")]
    /\ UNCHANGED <<cbVars, regVars, wk, queue, snapshot, nHandle, cons, envVars,
                   boundVars, histVars>>

\* ------------------------------------------------------------------------
\* The wall clock and the runtime's check of concurrent map accesses
\* ------------------------------------------------------------------------
Tick ==
    /\ ~crashed
    /\ clock < MaxTime
    /\ clock' = clock + 1
    /\ UNCHANGED <<cbVars, regVars, wk, queue, snapshot, nHandle, conn, cons, crashed,
                   errors, boundVars, histVars>>

\* The next step of connection c in its callback reads chatRooms (lines 164,
\* 168, 48 after the check of line 198, 70 after Subscribe, 54 after Leave).
ReadsRooms(c) ==
    \/ conn[c].pc \in {"reg164", "reg168", "login192"}
    \/ conn[c].pc = "sub_send" /\ conn[c].k = "login"
    \/ conn[c].pc = "pub_send" /\ conn[c].k = "disc"

\* The next step of connection c writes chatRooms (line 162).
WritesRooms(c) == conn[c].pc = "reg160"

\* The userList (by its Channels id) that the next step of connection c
\* writes (lines 168, 172) or reads (line 192); 0 when it does neither.
WritesUsers(c) ==
    CASE conn[c].pc = "reg168" -> chatRooms[conn[c].room]
      [] conn[c].pc = "reg172" -> conn[c].v
      [] OTHER -> 0

ReadsUsers(c) == IF conn[c].pc = "login192" THEN conn[c].v ELSE 0

\* Two goroutines are about to access the same map and one of them writes.
Racing ==
    \E c \in Conns : \E d \in Conns \ {c} :
       \/ WritesRooms(c) /\ (ReadsRooms(d) \/ WritesRooms(d))
       \/ /\ WritesUsers(c) # 0
          /\ WritesUsers(c) \in {WritesUsers(d), ReadsUsers(d)}

\* Go's maps are not safe for concurrent use: besides either order of the
\* two accesses, the runtime may end the process ("fatal error: concurrent
\* map writes" / "concurrent map read and map write").
RaceFatal ==
    /\ ~crashed
    /\ Racing
    /\ crashed' = TRUE
    /\ UNCHANGED <<cbVars, regVars, wk, queue, snapshot, nHandle, conn, cons, clock,
                   errors, boundVars, histVars>>

\* ------------------------------------------------------------------------
\* Direct calls of Subscribe, Join / Say / Leave, Cancel and reads of s.New
\* ------------------------------------------------------------------------
\* A goroutine calls Subscribe(key) (line 48); max bounds the number of
\* such calls.
CallSubscribe(c, key, max) ==
    /\ ~crashed
    /\ conn[c].pc = "ready"
    /\ Subscribes < max
    /\ conn' = [conn EXCEPT ![c] =
                  AtSend([@ EXCEPT !.k = "call", !.room = key], "sub_send")]
    /\ UNCHANGED <<cbVars, regVars, wk, queue, snapshot, nHandle, cons, envVars, boundVars, histVars>>

\* A goroutine calls Join(user, key), Say(user, msg, key) or Leave(user, key);
\* max bounds the number of such calls.
CallPublish(c, evtType, user, msg, key, max) ==
    /\ ~crashed
    /\ conn[c].pc = "ready"
    /\ Publishes < max
    /\ conn' = [conn EXCEPT ![c] =
                  AtPublish([@ EXCEPT !.k = "call", !.room = key,
                                      !.user = user],
                            "pub_send", evtType, msg)]
    /\ UNCHANGED <<cbVars, regVars, wk, queue, snapshot, nHandle, cons, envVars, boundVars, histVars>>

\* Join (lines 69-71)
CallJoin(c, user, key) == CallPublish(c, "join", user, "", key, MaxPublish)

\* Say (lines 74-76)
CallSay(c, user, msg, key) ==
    CallPublish(c, "message", user, msg, key, MaxPublish)

\* A goroutine calls s.Cancel(key) on a Subscription that Subscribe returned
\* (line 54).
CallCancel(c, h, key) ==
    /\ ~crashed
    /\ conn[c].pc = "ready"
    /\ h <= nHandle
    /\ conn' = [conn EXCEPT ![c] =
                  AtSend([@ EXCEPT !.k = "call", !.room = key, !.s = h],
                         "unsub_send")]
    /\ UNCHANGED <<cbVars, regVars, wk, queue, snapshot, nHandle, cons, envVars, boundVars, histVars>>

\* The holder of a Subscription takes an event from s.New (as line 227 does).
Receive(h) ==
    /\ ~crashed
    /\ h <= nHandle
    /\ cons[h].pc = "none"
    /\ queue[h] # <<>>
    /\ queue' = [queue EXCEPT ![h] = Tail(@)]
    /\ UNCHANGED <<cbVars, regVars, wk, snapshot, nHandle, conn, cons, envVars,
                   boundVars, histVars>>

\* ------------------------------------------------------------------------
\* Specifications
\* ------------------------------------------------------------------------
NoUsers == [u \in Users |-> NoPw]

InitRest ==
    /\ queue = [h \in Handles |-> <<>>]
    /\ snapshot = [h \in Handles |-> <<>>]
    /\ nHandle = 0
    /\ conn = [c \in Conns |-> IdleConn]
    /\ cons = [h \in Handles |-> NoConsumer]
    /\ clock = 0
    /\ crashed = FALSE
    /\ errors = [c \in Conns |-> <<>>]
    /\ nLogin = 0
    /\ history = [w \in Workers |-> <<>>]
    /\ enq = [h \in Handles |-> <<>>]
    /\ owner = [h \in Handles |-> 0]
    /\ subAt = [h \in Handles |-> 0]
    /\ removed = [h \in Handles |-> FALSE]
    /\ registered = [c \in Conns |-> FALSE]
    /\ said = <<>>
    /\ loginAt = [c \in Conns |-> 0]

\* The server as main leaves it (lines 13-15, 137-248): no room.
Init ==
    /\ chatRooms = [r \in Rooms |-> 0]
    /\ userList = [k \in ChanIds |-> NoUsers]
    /\ nChan = 0
    /\ nWorker = 0
    /\ wk = [w \in Workers |-> NoWorker]
    /\ nReg = 0
    /\ InitRest

\* The Chatroom goroutines serving Subscribe and Join / Say / Leave.
ServeNext ==
    \/ \E w \in Workers, c \in Conns : ActorSubscribe(w, c)
    \/ \E w \in Workers, c \in Conns : ActorPublish(w, c)
    \/ \E w \in Workers : ActorDeliver(w)
    \/ \E w \in Workers : ActorArchive(w)

\* The Chatroom goroutines serving Cancel, and the rest of Cancel.
CancelNext ==
    \/ \E w \in Workers, c \in Conns : ActorUnsubscribe(w, c)
    \/ \E c \in Conns : CancelDrain(c)
    \/ \E c \in Conns : CancelReturn(c)

\* The steps of the Chatroom goroutines and of the calls into them.
ActorNext == ServeNext \/ CancelNext

\* The user a connection registers and logs in as.
UserOf(c) == IF c = 1 THEN "alice" ELSE "bob"

\* The server: the socket callbacks of every connection, the consumers, the
\* Chatroom goroutines.  Every connection registers itself in room R1 and
\* logs in, to any room with any secret.
Next ==
    \/ \E c \in Conns : OnRegister(c, "R1", UserOf(c), "pw1")
    \/ \E c \in Conns : RegisterInsert(c)
    \/ \E c \in Conns : RegisterSpawn(c)
    \/ \E c \in Conns : RegisterAddNew(c)
    \/ \E c \in Conns : RegisterAddOld(c)
    \/ \E c \in Conns, r \in Rooms, p \in Pws : OnLogin(c, r, UserOf(c), p)
    \/ \E c \in Conns : LoginCheck(c)
    \/ \E c \in Conns, m \in Texts : OnMessage(c, m)
    \/ \E c \in Conns : OnDisconnection(c)
    \/ \E h \in Handles : ConsumerEvent(h)
    \/ \E h \in Handles, c \in Conns : ConsumerMessage(h, c)
    \/ \E w \in Workers, h \in Handles : ActorPublishSay(w, h)
    \/ ActorNext
    \/ RaceFatal

Spec == Init /\ [][Next]_vars

\* The state after register("R1|alice|pw1") and register("R2|alice|pw1"):
\* two rooms, each with its Chatroom goroutine.
InitCore ==
    /\ chatRooms = [r \in Rooms |-> IF r = "R1" THEN 1 ELSE 2]
    /\ userList = [k \in ChanIds |-> [NoUsers EXCEPT !["alice"] = "pw1"]]
    /\ nChan = 2
    /\ nWorker = 2
    /\ wk = [w \in Workers |-> IF w <= 2 THEN NewWorker(w) ELSE NoWorker]
    /\ nReg = 2
    /\ InitRest

\* Goroutines calling Subscribe, Join and Say on room R1, Cancel with the key
\* of either room, and reading the handles; the clock may tick.
NextCore ==
    \/ \E c \in Conns : CallSubscribe(c, "R1", MaxHandles)
    \/ \E c \in Conns : CallJoin(c, "alice", "R1")
    \/ \E c \in Conns, m \in Texts : CallSay(c, "alice", m, "R1")
    \/ \E c \in Conns, h \in Handles, key \in Rooms : CallCancel(c, h, key)
    \/ \E h \in Handles : Receive(h)
    \/ ActorNext
    \/ Tick

SpecCore == InitCore /\ [][NextCore]_vars

\* The k-th message of the long run has the text "k".
LongSay ==
    CallPublish(1, "message", "alice", ToString(Publishes + 1), "R1",
                MaxPublishLong)

\* A long run on room R1: goroutine 1 says "1", "2", ... while goroutine 2
\* subscribes and cancels and the handle is read.
NextLong ==
    \/ LongSay
    \/ CallSubscribe(2, "R1", MaxHandlesLong)
    \/ \E h \in Handles : CallCancel(2, h, "R1")
    \/ \E h \in Handles : Receive(h)
    \/ ActorNext

SpecLong == InitCore /\ [][NextLong]_vars

\* The long run without Cancel: goroutine 1 says "1", "2", ... while
\* goroutine 2 subscribes and the handle is read.
NextFeed ==
    \/ LongSay
    \/ CallSubscribe(2, "R1", MaxHandlesLong)
    \/ \E h \in Handles : Receive(h)
    \/ ServeNext

SpecFeed == InitCore /\ [][NextFeed]_vars

\* ------------------------------------------------------------------------
\* Properties
\* ------------------------------------------------------------------------
Min(a, b) == IF a <= b THEN a ELSE b

\* The last n elements of s (all of s when it has fewer).
LastN(s, n) == SubSeq(s, Len(s) - Min(n, Len(s)) + 1, Len(s))

\* s without its first k elements.
DropFirst(s, k) == SubSeq(s, k + 1, Len(s))

Member(s, x) == \E i \in 1..Len(s) : s[i] = x

\* Number of occurrences of x in s.
Count(s, x) == Cardinality({i \in 1..Len(s) : s[i] = x})

\* The events the holder of handle h has taken from s.New: those enqueued
\* minus those still buffered (no Cancel has drained the handle).
Received(h) == SubSeq(enq[h], 1, Len(enq[h]) - Len(queue[h]))

\* Handle h was returned by a Subscribe and its worker has not removed it.
Live(h) == h <= nHandle /\ ~removed[h]

\* Handle h is live, its worker is back in the select and the holder has
\* received everything that was sent.
Quiet(h) == Live(h) /\ Selecting(owner[h]) /\ queue[h] = <<>>

\* Events the worker of h had already evicted when h was registered.
Evicted(h) ==
    IF subAt[h] > ArchiveCap THEN subAt[h] - ArchiveCap ELSE 0

\* C1, as the specification states it: for a Subscription that is not
\* cancelled, the snapshot followed by the events received on the handle is
\* the full history of the room, whatever the number of events accepted
\* before the Subscribe.
C1_FullHistory ==
    \A h \in Handles :
       Quiet(h) => snapshot[h] \o Received(h) = history[owner[h]]

\* C1, amended: for a Subscription that is not cancelled, the snapshot
\* followed by the events received on the handle is the history of the room
\* without the events that had been evicted from the archive when the
\* Subscribe was served (the first n - 20 when n > 20 were accepted before).
C1_RecentHistory ==
    \A h \in Handles :
       Quiet(h) =>
          snapshot[h] \o Received(h) = DropFirst(history[owner[h]], Evicted(h))

\* A Subscribe served after more than 20 events, whose holder has then
\* received a later event.
C1_Witness ==
    \E h \in Handles :
       Quiet(h) /\ subAt[h] > ArchiveCap /\ Received(h) # <<>>

\* The event accepted i-th by the worker of h, seen from h: in the snapshot
\* or not, and how often enqueued.
InSnapshot(h, i) == Member(snapshot[h], history[owner[h]][i])
TimesEnqueued(h, i) == Count(enq[h], history[owner[h]][i])

\* Every event of the room is in the snapshot of h and never enqueued on h,
\* or enqueued once and not in the snapshot.
EitherOr(h) ==
    \A i \in 1..Len(history[owner[h]]) :
       IF i <= subAt[h]
       THEN InSnapshot(h, i) /\ TimesEnqueued(h, i) = 0
       ELSE ~InSnapshot(h, i) /\ TimesEnqueued(h, i) = 1

\* As EitherOr, but an event evicted before h was registered is in neither.
EitherOrEvicted(h) ==
    \A i \in 1..Len(history[owner[h]]) :
       CASE i <= Evicted(h) -> ~InSnapshot(h, i) /\ TimesEnqueued(h, i) = 0
         [] i > Evicted(h) /\ i <= subAt[h] ->
               InSnapshot(h, i) /\ TimesEnqueued(h, i) = 0
         [] OTHER -> ~InSnapshot(h, i) /\ TimesEnqueued(h, i) = 1

\* The step that makes handle h gives it the archive, in order, as snapshot
\* and puts it among the subscribers (once).
RegisteredWithSnapshot(h) ==
    (nHandle # h /\ nHandle' = h) =>
       /\ snapshot'[h] = wk[owner'[h]].archive
       /\ Count(wk'[owner'[h]].subscribers, h) = 1

\* C2, as the specification states it: under concurrent Publish and
\* Subscribe calls every event the actor accepts is in the snapshot
\* (accepted before the Subscribe) or enqueued on the new handle exactly
\* once (accepted after it), never both and never neither.
C2_NeverNeither ==
    \A h \in Handles : (Live(h) /\ Selecting(owner[h])) => EitherOr(h)

\* C2, amended: the snapshot is the archive, in order, at the step that
\* registers the handle; every event accepted after that step is enqueued on
\* the handle exactly once and is not in the snapshot; every event accepted
\* before it is never enqueued, and is in the snapshot unless it had been
\* evicted from the archive (more than 20 accepted before the Subscribe).
C2_Atomic ==
    /\ [](\A h \in Handles :
            (Live(h) /\ Selecting(owner[h])) => EitherOrEvicted(h))
    /\ [][\A h \in Handles : RegisteredWithSnapshot(h)]_vars

\* A Subscribe served after 21 events, with an event enqueued since.
C2_Witness ==
    \E h \in Handles :
       /\ Live(h) /\ Selecting(owner[h])
       /\ subAt[h] = ArchiveCap + 1
       /\ Len(enq[h]) > 0

\* C3: in every reachable state the archive of every room holds at most 20
\* events.
C3_ArchiveBounded ==
    \A w \in Workers : Len(wk[w].archive) <= ArchiveCap

\* A full archive after an eviction.
C3_Witness ==
    \E w \in Workers :
       Len(wk[w].archive) = ArchiveCap /\ Len(history[w]) > ArchiveCap

\* C4: whenever the actor is idle after N accepted events, the archive is
\* the last min(N, 20) of them in the order they were accepted.
C4_ArchiveIsRecent ==
    \A w \in Workers :
       Selecting(w) => wk[w].archive = LastN(history[w], ArchiveCap)

\* An idle actor that has accepted 22 events.
C4_Witness ==
    \E w \in Workers : Selecting(w) /\ Len(history[w]) = ArchiveCap + 2

\* C5: once the actor has processed the Unsubscribe of a handle, nothing is
\* enqueued on that handle any more.
C5_NoLateEnqueue ==
    [][\A h \in Handles : removed[h] => enq'[h] = enq[h]]_vars

\* An event accepted and fully processed after the removal of a handle: the
\* room has accepted more events since the Subscribe than the handle got.
C5_Witness ==
    \E h \in Handles :
       /\ removed[h]
       /\ Selecting(owner[h])
       /\ Len(history[owner[h]]) > subAt[h] + Len(enq[h])

\* C6: every event accepted after a handle was registered (so every event
\* published after its Subscribe returned) is enqueued on the handle as long
\* as the handle is not removed: the events enqueued are those accepted since
\* the registration, except that the last one may still be on its way, the
\* worker being in the delivery loop at or before the handle.
C6_Enqueued ==
    \A h \in Handles :
       Live(h) =>
          LET w == owner[h]
          IN \/ enq[h] = DropFirst(history[w], subAt[h])
             \/ /\ wk[w].pc = "deliver"
                /\ \E i \in wk[w].idx..Len(wk[w].subscribers) :
                      wk[w].subscribers[i] = h
                /\ enq[h] = SubSeq(history[w], subAt[h] + 1, Len(history[w]) - 1)

\* A handle registered before any event that has got two events since.
C6_Witness ==
    \E h \in Handles :
       Live(h) /\ subAt[h] = 0 /\ Len(enq[h]) = 2 /\ Selecting(owner[h])

\* The worker w takes the Unsubscribe sent by connection c.
UnsubscribeStep(w, c) ==
    /\ Selecting(w)
    /\ conn[c].pc = "unsub_send"
    /\ conn[c].tgt = wk[w].ch
    /\ conn'[c].pc = "drain"

\* C7: an Unsubscribe with a handle that is not among the subscribers (never
\* was, or removed before) is taken by the actor, which stays as it was
\* (subscribers, archive, waiting in its select for the next request); no
\* error is raised.
C7_Idempotent ==
    [][\A w \in Workers, c \in Conns :
          (UnsubscribeStep(w, c) /\ ~Member(wk[w].subscribers, conn[c].s)) =>
             /\ wk'[w] = wk[w]
             /\ crashed' = crashed
             /\ errors' = errors]_vars

\* Two Cancel calls for the same handle have both passed the actor.
C7_Witness ==
    /\ conn[1].pc = "drain"
    /\ conn[2].pc = "drain"
    /\ conn[1].s = conn[2].s
    /\ removed[conn[1].s]

\* A Cancel with a handle the actor never had has passed the actor.
C7_WitnessUnknown ==
    \E c \in Conns : conn[c].pc = "drain" /\ ~removed[conn[c].s]

LoginErrors == {NoRoomMsg(r) : r \in Rooms} \cup {NoUserMsg, BadPwMsg}

\* C8: a login fails exactly when the room is not in the registry, the user
\* is not in its credential mapping or the secret differs; the step that
\* fails it emits one error, to the requesting connection only, ends the
\* callback, and leaves the registry, the credential mappings, every worker
\* (archive, subscribers), every handle and every consumer unchanged.
C8_FailedLogin ==
    [][\A c \in Conns :
          /\ errors'[c] # errors[c] =>
                /\ \E m \in LoginErrors : errors'[c] = Append(errors[c], m)
                /\ \A r \in Rooms :
                      errors'[c] = Append(errors[c], NoRoomMsg(r)) =>
                         chatRooms[r] = 0
                /\ conn'[c].pc = "ready"
                /\ conn'[c].cb = conn[c].cb
                /\ \A d \in Conns \ {c} :
                      errors'[d] = errors[d] /\ conn'[d] = conn[d]
                /\ UNCHANGED <<regVars, wk, queue, snapshot, nHandle, cons,
                               histVars>>
          /\ (conn[c].pc = "login192" /\ conn'[c] # conn[c]) =>
                (errors'[c] # errors[c]
                    <=> userList[conn[c].v][conn[c].user] # conn[c].pw)
          /\ (conn[c].pc = "ready" /\ conn'[c].pc = "login192") =>
                chatRooms[conn'[c].room] # 0]_vars

\* A login was refused for its secret while a room has an event in its
\* archive and a subscriber.
C8_Witness ==
    \E c \in Conns :
       /\ errors[c] # <<>>
       /\ errors[c][Len(errors[c])] = BadPwMsg
       /\ \E w \in Workers : wk[w].archive # <<>> /\ wk[w].subscribers # <<>>

\* C9, as the specification states it: a login with the room, user and
\* secret of a register that has returned on the same connection succeeds
\* (no error is emitted to it).
C9_RegisteredLoginSucceeds ==
    [][\A c \in Conns :
          (/\ registered[c]
           /\ conn[c].pc = "login192"
           /\ conn[c].room = "R1"
           /\ conn[c].user = UserOf(c)
           /\ conn[c].pw = "pw1"
           /\ conn'[c] # conn[c]) => errors'[c] = errors[c]]_vars

\* C9, second half, for the runs in which one Channels value was made: once
\* the login callback has returned (its consumer runs), the join of its user
\* is in the archive of the room.
C9_JoinArchivedOnReturn ==
    \A h \in Handles :
       (nChan = 1 /\ cons[h].pc # "none") =>
          \E i \in 1..Len(wk[owner[h]].archive) :
             /\ wk[owner[h]].archive[i].EvtType = "join"
             /\ wk[owner[h]].archive[i].User = cons[h].user

\* The snapshot has a join of user u and, later, the message t of u.
JoinThenMessage(snap, u, t) ==
    \E j \in 1..Len(snap) : \E k \in (j + 1)..Len(snap) :
       /\ snap[j].EvtType = "join" /\ snap[j].User = u
       /\ snap[k].EvtType = "message" /\ snap[k].User = u /\ snap[k].Text = t

\* C10, as the specification states it, for the runs in which one Channels
\* value was made (no two register callbacks raced to create the room): the
\* snapshot of a login holds the join and then the message of every user of
\* the room whose "message" callback, on another connection, had returned
\* when the login began.
C10_SnapshotHasMessage ==
    \A d \in Conns :
       (nChan = 1 /\ conn[d].k = "login" /\ conn[d].pc = "pub_send") =>
          \A i \in 1..loginAt[d] :
             (said[i].so # d /\ said[i].room = conn[d].room) =>
                JoinThenMessage(snapshot[conn[d].s], said[i].user,
                                said[i].text)

\* The room identifiers that have an entry in the registry.
Registered == {r \in Rooms : chatRooms[r] # 0}

\* C11, as the specification states it: under any interleaving of register
\* callbacks at most one Channels value and one Chatroom worker are ever
\* made for a room identifier, and the registry entry of a room, once made,
\* is the one every later reference finds.
C11_CreatedOnce ==
    /\ nChan <= Cardinality(Registered)
    /\ nWorker <= Cardinality(Registered)

\* The secret a login to room r as user u is compared with, given the
\* registry and the credential mappings: NoPw when there is no room or no
\* such user in it.
CredOf(rooms, lists, r, u) ==
    IF rooms[r] = 0 THEN NoPw ELSE lists[rooms[r]][u]

\* Connection c takes a step of its "register" callback (lines 160-172).
RegisterStep(c) ==
    /\ conn[c].k = "register"
    /\ conn[c].pc \in {"reg160", "reg164", "reg168", "reg172"}
    /\ conn'[c] # conn[c]

\* C14, as the specification states it: a register of (R, u, p) changes the
\* credentials of no other user and of no other room, and when it returns
\* room R is in the registry and its credential mapping holds u -> p.
C14_RegisterEffect ==
    [][\A c \in Conns :
          RegisterStep(c) =>
             /\ \A r \in Rooms, u \in Users :
                   <<r, u>> # <<conn[c].room, conn[c].user>> =>
                      CredOf(chatRooms', userList', r, u)
                         = CredOf(chatRooms, userList, r, u)
             /\ conn'[c].pc = "ready" =>
                   CredOf(chatRooms', userList', conn[c].room, conn[c].user)
                      = conn[c].pw]_vars

\* C17: the credential mappings are read and written by the connection
\* goroutines themselves, no Chatroom worker taking part: a mapping changes
\* only by the write of line 168 or 172 of a connection's "register"
\* callback, which stores that callback's secret under its user, and the
\* login callback's read of line 192 is a step of the connection alone.  So
\* two connections can be about to access one mapping at the same time, one
\* of them writing (C17_Witness, C17_WitnessWrites).
C17_DirectAccess ==
    [][/\ userList' # userList =>
             \E c \in Conns :
                /\ WritesUsers(c) # 0
                /\ conn'[c].pc = "ready"
                /\ userList' = [userList EXCEPT
                                  ![WritesUsers(c)][conn[c].user] = conn[c].pw]
                /\ wk' = wk
       /\ \A c \in Conns :
             (ReadsUsers(c) # 0 /\ conn'[c] # conn[c]) => wk' = wk]_vars

\* A register callback is about to write the mapping that a login callback
\* of another connection is about to read.
C17_Witness ==
    \E c \in Conns : \E d \in Conns \ {c} :
       WritesUsers(c) # 0 /\ WritesUsers(c) = ReadsUsers(d)

\* Two register callbacks are about to write the same mapping.
C17_WitnessWrites ==
    \E c \in Conns : \E d \in Conns \ {c} :
       WritesUsers(c) # 0 /\ WritesUsers(c) = WritesUsers(d)

\* The login that made handle h has had its Join accepted (its consumer has
\* been started, line 224).
LoggedIn(h) == cons[h].pc # "none"

\* The i-th event accepted by the worker of h is a join of the user of the
\* login that made h.
IsOwnJoin(h, i) ==
    /\ history[owner[h]][i].EvtType = "join"
    /\ history[owner[h]][i].User = cons[h].user

\* The i-th event accepted by the worker of h has been enqueued on h, or is
\* the event the worker is delivering.
EnqueuedOrPending(h, i) ==
    \/ i - subAt[h] <= Len(enq[h])
    \/ wk[owner[h]].pc = "deliver" /\ i = Len(history[owner[h]])

\* C20, as the specification states it: the join of a login is accepted by
\* the room's actor after the login's handle is registered, so it is not in
\* the login's snapshot, and it is enqueued on the login's own handle, in
\* the order of acceptance, after the events accepted between the two steps.
C20_JoinOnOwnHandle ==
    \A h \in Handles :
       LoggedIn(h) =>
          /\ \E i \in (subAt[h] + 1)..Len(history[owner[h]]) :
                IsOwnJoin(h, i) /\ EnqueuedOrPending(h, i)
          /\ \A j \in 1..Len(enq[h]) :
                enq[h][j] = history[owner[h]][subAt[h] + j]

\* s without its last element.
Front(s) == SubSeq(s, 1, Len(s) - 1)

\* C15, as the specification states it: the actor stores an event in the
\* archive before it delivers it, so once the event it is processing has
\* been enqueued on a member's queue the event is in the archive.
C15_ArchiveFirst ==
    \A w \in Workers :
       (wk[w].pc = "deliver" /\ wk[w].idx > 1) =>
          Member(wk[w].archive, wk[w].event)

\* C15, amended: the actor first delivers the event to every member and
\* only then stores it: while it is in the delivery loop the archive holds
\* the last 20 of the events accepted before the one being delivered, and
\* when it is back in its select the archive holds the last 20 of all the
\* events accepted and every member has been sent every one of them.
C15_DeliverFirst ==
    /\ \A w \in Workers :
          /\ wk[w].pc = "deliver" =>
                /\ wk[w].event = history[w][Len(history[w])]
                /\ wk[w].archive = LastN(Front(history[w]), ArchiveCap)
          /\ Selecting(w) => wk[w].archive = LastN(history[w], ArchiveCap)
    /\ \A h \in Handles :
          (Live(h) /\ Selecting(owner[h])) =>
             Len(enq[h]) = Len(history[owner[h]]) - subAt[h]

\* An event enqueued on a member while the archive is full of older ones.
C15_Witness ==
    \E w \in Workers :
       /\ wk[w].pc = "deliver"
       /\ wk[w].idx > 1
       /\ Len(wk[w].archive) = ArchiveCap
       /\ ~Member(wk[w].archive, wk[w].event)

\* s is the part of t that starts after its first k elements.
IsSegment(s, t, k) ==
    k + Len(s) <= Len(t) /\ s = SubSeq(t, k + 1, k + Len(s))

\* q is the end of s.
IsSuffix(q, s) ==
    Len(q) <= Len(s) /\ q = SubSeq(s, Len(s) - Len(q) + 1, Len(s))

\* C16: the events of a room are totally ordered by the order in which its
\* actor accepted them, and every observer sees that order: the events sent
\* to a handle are, in order, the events accepted from its registration on
\* (so two handles of a room get their common events in the same order), a
\* handle hands them out first in, first out (what is still buffered is the
\* end of what was sent), and the archive is a run of consecutive accepted
\* events in that order.
C16_TotalOrder ==
    /\ \A h \in Handles :
          h <= nHandle =>
             /\ IsSegment(enq[h], history[owner[h]], subAt[h])
             /\ IsSuffix(queue[h], enq[h])
    /\ \A w \in Workers :
          \E k \in 0..Len(history[w]) :
             IsSegment(wk[w].archive, history[w], k)

\* Two handles of one room have each been sent the same two different
\* events, and one of them still buffers both.
C16_Witness ==
    \E h \in Handles : \E g \in Handles \ {h} :
       /\ h <= nHandle /\ g <= nHandle
       /\ owner[h] = owner[g]
       /\ Len(enq[h]) = 2 /\ enq[g] = enq[h]
       /\ enq[h][1] # enq[h][2]
       /\ Len(queue[h]) = 2

\* s without the elements equal to x.
Without(s, x) == SelectSeq(s, LAMBDA y : y # x)

\* C18: the step in which the actor takes Unsubscribe(h) removes h, and
\* nothing else, from its subscribers (one element less when h was there)
\* and leaves its archive, the other workers, every delivery queue, every
\* snapshot and the registry as they were; and whatever the membership has
\* been, the snapshot of a Subscribe is the last 20 of the events the room
\* had accepted when it was served.
C18_UnsubscribeFrame ==
    /\ [](\A h \in Handles :
            h <= nHandle =>
               snapshot[h] = LastN(SubSeq(history[owner[h]], 1, subAt[h]),
                                   ArchiveCap))
    /\ [][\A w \in Workers, c \in Conns :
             UnsubscribeStep(w, c) =>
                /\ wk'[w].subscribers = Without(wk[w].subscribers, conn[c].s)
                /\ Len(wk'[w].subscribers) >= Len(wk[w].subscribers) - 1
                /\ wk'[w] = [wk[w] EXCEPT !.subscribers = wk'[w].subscribers]
                /\ \A v \in Workers \ {w} : wk'[v] = wk[v]
                /\ UNCHANGED <<queue, snapshot, regVars, history, enq>>]_vars

\* A handle registered after the only member of its room had been removed
\* (the room accepted an event that the removed handle was not sent), whose
\* snapshot holds the events accepted before.
C18_Witness ==
    \E h \in Handles : \E g \in Handles \ {h} :
       /\ removed[h]
       /\ g <= nHandle
       /\ owner[g] = owner[h]
       /\ subAt[g] > subAt[h] + Len(enq[h])
       /\ Len(snapshot[g]) = subAt[g]

\* ------------------------------------------------------------------------
\* Two rooms, one of them with a slow listener
\* ------------------------------------------------------------------------
\* Events published to build up a full buffer and a blocked worker.
MaxPublishBlock == 13

\* A caller says something in room R2 (line 75 called with key R2).
SayOther ==
    /\ Len(history[chatRooms["R2"]]) < MaxPublish
    /\ CallPublish(2, "message", "alice", "hi", "R2", MaxPublishBlock)

\* Both rooms exist.  One caller subscribes to R1 and then to R2, cancels
\* either handle with its own room key and says things in R2; once R1 has a
\* listener the other caller keeps saying things in R1.
NextRooms ==
    \/ /\ nHandle >= 1
       /\ CallPublish(1, "message", "alice", "hi", "R1", MaxPublishBlock)
    \/ CallSubscribe(2, IF nHandle = 0 THEN "R1" ELSE "R2", MaxHandles)
    \/ \E h \in Handles : CallCancel(2, h, IF h = 1 THEN "R1" ELSE "R2")
    \/ SayOther
    \/ \E h \in Handles : Receive(h)
    \/ ActorNext

SpecRooms == InitCore /\ [][NextRooms]_vars

\* Worker w is inside the delivery loop (line 112) at a subscriber whose
\* buffer holds QueueCap events.
Blocked(w) ==
    /\ wk[w].pc = "deliver"
    /\ wk[w].idx <= Len(wk[w].subscribers)
    /\ Len(queue[wk[w].subscribers[wk[w].idx]]) = QueueCap

\* Goroutine c waits at a send on a channel of worker w.
Parked(c, w) ==
    /\ conn[c].pc \in {"sub_send", "pub_send", "unsub_send"}
    /\ conn[c].tgt = wk[w].ch

\* Worker v takes the request of goroutine c.
Serve(v, c) ==
    ActorSubscribe(v, c) \/ ActorPublish(v, c) \/ ActorUnsubscribe(v, c)

\* C12: while a worker is blocked delivering to a subscriber whose buffer is
\* full, the worker does nothing and every request parked at its room stays
\* parked; a request parked at another room whose worker is in its select
\* can still be served.
C12_BlockedRoomOnly ==
    /\ [][\A w \in Workers : Blocked(w) =>
             /\ wk'[w] = wk[w]
             /\ history'[w] = history[w]
             /\ \A c \in Conns : Parked(c, w) => conn'[c] = conn[c]]_vars
    /\ [](\A w \in Workers : Blocked(w) =>
            \A v \in Workers \ {w} : \A c \in Conns :
                (wk[v].ch # wk[w].ch /\ Selecting(v) /\ Parked(c, v))
                    => ENABLED Serve(v, c))

\* A worker is blocked with a request parked at its room while a request to
\* the other room is waiting at that room's idle worker.
C12_Witness ==
    \E w \in Workers : \E v \in Workers \ {w} : \E c \in Conns : \E d \in Conns \ {c} :
        /\ Blocked(w)
        /\ Parked(c, w)
        /\ wk[v].ch # wk[w].ch
        /\ Selecting(v)
        /\ Parked(d, v)

\* ------------------------------------------------------------------------
\* One socket with a session, from login to disconnection
\* ------------------------------------------------------------------------
\* What the client of socket 1 sends: "login" with a registered user,
\* "message" and "disconnection".
ClientNext ==
    \/ OnLogin(1, "R1", "alice", "pw1")
    \/ \E msg \in Texts : OnMessage(1, msg)
    \/ OnDisconnection(1)

\* The steps the goroutines of the server take on their own.
InternalNext ==
    \/ LoginCheck(1)
    \/ \E h \in Handles : ConsumerEvent(h)
    \/ \E h \in Handles : ConsumerMessage(h, 1)
    \/ \E w \in Workers, h \in Handles : ActorPublishSay(w, h)
    \/ ActorNext

NextLeave == ClientNext \/ InternalNext

SpecLeave == InitCore /\ [][NextLeave]_vars

\* The Go scheduler runs a goroutine that can take a step.
SpecLeaveFair == SpecLeave /\ WF_vars(InternalNext)

\* The socket logs in once and sends messages; once its handle exists a
\* second caller keeps saying things in the room of the session.
NextSession ==
    \/ /\ nLogin < MaxHandlesLong
       /\ OnLogin(1, "R1", "alice", "pw1")
    \/ \E msg \in Texts : OnMessage(1, msg)
    \/ LoginCheck(1)
    \/ \E h \in Handles : ConsumerEvent(h)
    \/ \E h \in Handles : ConsumerMessage(h, 1)
    \/ \E w \in Workers, h \in Handles : ActorPublishSay(w, h)
    \/ ServeNext
    \/ /\ nHandle >= 1
       /\ CallPublish(2, "message", "bob", "hi", "R1", MaxPublishBlock)

SpecSession == InitCore /\ [][NextSession]_vars

\* A Cancel of handle h has removed it from its worker and has returned.
CancelDone(h) ==
    /\ removed[h]
    /\ \A c \in Conns : ~(conn[c].pc \in {"unsub_send", "drain"} /\ conn[c].s = h)

\* The consumer of handle h waits in its select (line 226) and s.New is empty.
ReadBlocked(h) == cons[h].pc = "select" /\ queue[h] = <<>>

\* C13: after Cancel has completed for a handle, the consumer goroutine
\* reading that handle does not stay blocked on the read forever.
C13_ConsumerReleased ==
    \A h \in Handles : CancelDone(h) ~> ~ReadBlocked(h)

\* C19: no reachable state has a worker blocked delivering to a handle whose
\* buffer is full while the only reader of that handle, the consumer of the
\* login, is parked in Say at a send to the same worker.
C19_NoDeadlock ==
    \A w \in Workers, h \in Handles :
        ~ /\ Blocked(w)
          /\ wk[w].subscribers[wk[w].idx] = h
          /\ cons[h].pc = "say_send"
          /\ cons[h].tgt = wk[w].ch
          /\ \A c \in Conns : ~(conn[c].pc = "drain" /\ conn[c].s = h)

====
